---- MODULE Spec2Model ----
(***************************************************************************)
(* Model of scripts/dc_to_ansible.py: the conversion of a docker-compose   *)
(* descriptor into the default-variable records and the rewritten          *)
(* descriptor of an ansible role.                                          *)
(*                                                                         *)
(* Text is modelled as a sequence of one-character strings, so that the    *)
(* regular expressions, the lower-casing, the splits and the f-strings of  *)
(* the script are computed character by character.                         *)
(***************************************************************************)
EXTENDS Integers, Sequences, FiniteSets, TLC

\* ------------------------------------------------------------------ text

UpperLetters == <<"A", "B", "C", "D", "E", "F", "G", "H", "I", "J", "K", "L", "M",
                  "N", "O", "P", "Q", "R", "S", "T", "U", "V", "W", "X", "Y", "Z">>

LowerLetters == <<"a", "b", "c", "d", "e", "f", "g", "h", "i", "j", "k", "l", "m",
                  "n", "o", "p", "q", "r", "s", "t", "u", "v", "w", "x", "y", "z">>

DigitChars == <<"0", "1", "2", "3", "4", "5", "6", "7", "8", "9">>

\* The characters the regular expression class \s matches.
Whitespace == {" ", "\t", "\n", "\r", "\f"}

IsUpper(c) == \E i \in 1..26 : UpperLetters[i] = c

IsLower(c) == \E i \in 1..26 : LowerLetters[i] = c

IsDigit(c) == \E i \in 1..10 : DigitChars[i] = c

\* The regular expression class \w.
IsWord(c) == IsUpper(c) \/ IsLower(c) \/ IsDigit(c) \/ c = "_"

LowerChar(c) == IF IsUpper(c) THEN LowerLetters[CHOOSE i \in 1..26 : UpperLetters[i] = c] ELSE c

UpperChar(c) == IF IsLower(c) THEN UpperLetters[CHOOSE i \in 1..26 : LowerLetters[i] = c] ELSE c

\* str.lower()
Lower(s) == [i \in 1..Len(s) |-> LowerChar(s[i])]

Upper(s) == [i \in 1..Len(s) |-> UpperChar(s[i])]

\* str.startswith / str.endswith
StartsWith(s, p) == Len(p) <= Len(s) /\ SubSeq(s, 1, Len(p)) = p

EndsWith(s, p) == Len(p) <= Len(s) /\ SubSeq(s, Len(s) - Len(p) + 1, Len(s)) = p

\* The first index of character c in s, 0 when there is none.
IndexOf(s, c) == IF \E i \in 1..Len(s) : s[i] = c
                 THEN CHOOSE i \in 1..Len(s) : s[i] = c /\ \A j \in 1..(i - 1) : s[j] # c
                 ELSE 0

\* The last index of character c in s, 0 when there is none.
LastIndexOf(s, c) == IF \E i \in 1..Len(s) : s[i] = c
                     THEN CHOOSE i \in 1..Len(s) : s[i] = c /\ \A j \in (i + 1)..Len(s) : s[j] # c
                     ELSE 0

\* s occurs in t as a substring.
Contains(t, s) == \E i \in 1..(Len(t) - Len(s) + 1) : SubSeq(t, i, i + Len(s) - 1) = s

\* str(n) for n >= 0.
RECURSIVE IntToStr(_)
IntToStr(n) == IF n < 10 THEN <<DigitChars[n + 1]>>
               ELSE IntToStr(n \div 10) \o <<DigitChars[(n % 10) + 1]>>

DigitValue(c) == (CHOOSE i \in 1..10 : DigitChars[i] = c) - 1

\* int(s) for a string of digits.
RECURSIVE StrToInt(_)
StrToInt(s) == IF Len(s) = 0 THEN 0
               ELSE 10 * StrToInt(SubSeq(s, 1, Len(s) - 1)) + DigitValue(s[Len(s)])

\* The length of the run of digits s starts with.
RECURSIVE LeadingDigits(_)
LeadingDigits(s) == IF Len(s) > 0 /\ IsDigit(s[1]) THEN 1 + LeadingDigits(Tail(s)) ELSE 0

\* str.replace(old, new): every non-overlapping occurrence, left to right.
RECURSIVE Replace(_, _, _)
Replace(s, old, new) ==
    IF Len(s) < Len(old) \/ Len(old) = 0 THEN s
    ELSE IF SubSeq(s, 1, Len(old)) = old
         THEN new \o Replace(SubSeq(s, Len(old) + 1, Len(s)), old, new)
         ELSE <<Head(s)>> \o Replace(Tail(s), old, new)

\* All sequences over alphabet A of length at most n.
RECURSIVE StringsUpTo(_, _)
StringsUpTo(A, n) == IF n = 0 THEN {<<>>}
                     ELSE LET shorter == StringsUpTo(A, n - 1)
                          IN shorter \cup {<<c>> \o s : c \in A, s \in {t \in shorter : Len(t) = n - 1}}

\* --------------------------------------------------------- module level

\* file_docker_file_mount_identifier + "::env"
file_type_env == <<"#", " ", "d", "e", "p", "l", "o", "y", "-", "d", "o", "c", "k", "e", "r",
                   "-", "c", "o", "m", "p", "o", "s", "e", "-", "t", "e", "m", "p", "l", "a",
                   "t", "e", ":", ":", "t", "y", "p", "e", ":", ":", "e", "n", "v">>

default_min_secret_len == 12

\* The alternatives of the pattern is_secret compiles.
SecretSuffixes == {<<"p", "a", "s", "s", "w", "o", "r", "d">>,
                   <<"s", "e", "c", "r", "e", "t">>,
                   <<"t", "o", "k", "e", "n">>,
                   <<"a", "p", "i", "_", "k", "e", "y">>,
                   <<"d", "b", "_", "p", "a", "s", "s">>,
                   <<"s", "e", "c", "r", "e", "t", "_", "k", "e", "y">>}

\* The regular expression anchor $ at index e (the index of the last matched
\* character): the end of the string, or just before a newline that ends it.
DollarAt(s, e) == e = Len(s) \/ (e = Len(s) - 1 /\ s[Len(s)] = "\n")

\* patt.search(key) for "(password|...|secret_key)$" with re.IGNORECASE.
PattSearch(key) ==
    \E w \in SecretSuffixes : \E i \in 1..(Len(key) - Len(w) + 1) :
        /\ Lower(SubSeq(key, i, i + Len(w) - 1)) = w
        /\ DollarAt(key, i + Len(w) - 1)

\* is_secret: secret_seqs is a sequence of literal patterns (empty for None),
\* searched unanchored and case-sensitively.
is_secret(service_name, key, value, secret_seqs) ==
    IF PattSearch(key) THEN TRUE
    ELSE IF Len(secret_seqs) > 0
              /\ \E i \in 1..Len(secret_seqs) : Contains(key, secret_seqs[i])
         THEN TRUE
         ELSE FALSE

\* re.sub(r"\d+", new_key, port_line): the pattern without its anchor.
RECURSIVE patch_port_unanchored(_, _)
patch_port_unanchored(port_line, new_key) ==
    LET n == LeadingDigits(port_line)
    IN IF Len(port_line) = 0 THEN <<>>
       ELSE IF n = 0
            THEN <<Head(port_line)>> \o patch_port_unanchored(Tail(port_line), new_key)
            ELSE new_key \o patch_port_unanchored(SubSeq(port_line, n + 1, Len(port_line)),
                                                  new_key)

\* re.sub(r"^\d+", new_key, port_line)
patch_port(port_line, new_key) ==
    LET n == LeadingDigits(port_line)
    IN IF n = 0 THEN port_line ELSE new_key \o SubSeq(port_line, n + 1, Len(port_line))

\* re.sub(r"[\s-]]", "_", name): the class [\s-] followed by a literal "]".
RECURSIVE SubWsHyphenBracket(_)
SubWsHyphenBracket(name) ==
    IF Len(name) = 0 THEN <<>>
    ELSE IF Len(name) >= 2 /\ (name[1] \in Whitespace \/ name[1] = "-") /\ name[2] = "]"
         THEN <<"_">> \o SubWsHyphenBracket(SubSeq(name, 3, Len(name)))
         ELSE <<Head(name)>> \o SubWsHyphenBracket(Tail(name))

normalize_key_and_name(name) == Lower(SubWsHyphenBracket(name))

\* ------------------------------------------------------------ dictionaries

\* A Python dict is a sequence of <<key, value>> pairs in insertion order.
DictHas(d, k) == \E i \in 1..Len(d) : d[i][1] = k

DictGet(d, k) == d[CHOOSE i \in 1..Len(d) : d[i][1] = k][2]

\* d[k] = v: an existing key keeps its position.
DictSet(d, k, v) ==
    IF DictHas(d, k)
    THEN [i \in 1..Len(d) |-> IF d[i][1] = k THEN <<k, v>> ELSE d[i]]
    ELSE Append(d, <<k, v>>)

DictKeys(d) == {d[i][1] : i \in 1..Len(d)}

\* d1.update(d2)
RECURSIVE DictUpdate(_, _)
DictUpdate(d1, d2) ==
    IF Len(d2) = 0 THEN d1
    ELSE DictUpdate(DictSet(d1, d2[1][1], d2[1][2]), Tail(d2))

\* An optional value: <<>> for an absent one, <<v>> for v.
Absent == <<>>

Some(v) == <<v>>

\* ------------------------------------------------------------------ state

VARIABLES
    defaults_prefix,           \* main's defaults_prefix after line 119
    min_secret_length,         \* the --min-secret-length option
    proxy_container,           \* the --proxy-container option, Absent when not given
    og,                        \* the descriptor as authored (what `final` is loaded from)
    final,                     \* the descriptor being rewritten in place
    defaults,                  \* bootstrap_data["defaults"]
    services_by_env,           \* services_by_env
    env_files,                 \* bootstrap_data["env_files"]
    backup_paths,              \* bootstrap_data["backup_paths"]
    exposed_ports_by_service,  \* bootstrap_data["exposed_ports_by_service"]
    volume_defaults,           \* volume_defaults
    images_tags,               \* images_tags
    pc,                        \* the statement of main the run is at
    calls,                     \* history: the arguments of every add_to_defaults call
    fn,                        \* the module-level function last applied on its own
    arg,                       \* its arguments
    ret                        \* its result

configVars == <<defaults_prefix, min_secret_length, proxy_container, og>>

registryVars == <<defaults, services_by_env, env_files, calls>>

walkVars == <<backup_paths, exposed_ports_by_service, volume_defaults, images_tags>>

pureVars == <<fn, arg, ret>>

vars == <<configVars, final, registryVars, walkVars, pc, pureVars>>

\* ------------------------------------------------- options and file system

\* The --role-name default.
RoleNameOption == <<"d", "o", "c", "k", "e", "r", "_">>

\* The --ext-proxy-net default.
ext_proxy_net == <<"p", "r", "o", "x", "y", "-", "t", "i", "e", "r">>

\* bootstrap_data["role_name"]
role_name == normalize_key_and_name(RoleNameOption)

releases_key == normalize_key_and_name(<<"r", "e", "l", "e", "a", "s", "e", "s">>)

\* f"{{{{ {x} }}}}"
Jinja(x) == <<"{", "{", " ">> \o x \o <<" ", "}", "}">>

variable_from_env(key) == defaults_prefix \o normalize_key_and_name(key)

variable_from_port(service_name, exposed_port, add_prefix) ==
    (IF add_prefix THEN defaults_prefix ELSE <<>>)
        \o <<"h", "o", "s", "t", "_", "p", "o", "r", "t", "_">>
        \o service_name \o <<"_">> \o IntToStr(exposed_port)

\* secret_string_template.format(role_name=..., service_name=..., env_key=...) for the
\* default template "services/{role_name}/{service_name}/{env_key}".
get_secret_path(svc_name, key) ==
    <<"s", "e", "r", "v", "i", "c", "e", "s", "/">> \o role_name \o <<"/">> \o svc_name
        \o <<"/">> \o key

\* Path(path).parts[-1]: the text after the last "/".
BaseName(path) == SubSeq(path, LastIndexOf(path, "/") + 1, Len(path))

\* normalize_key_and_name("_".join(Path(path).parts[-1].split(".")))
file_name_id(path) == normalize_key_and_name(Replace(BaseName(path), <<".">>, <<"_">>))

\* The values a record's "value" holds: a string, an int, or a dict.
StrVal(s) == [kind |-> "str", str |-> s, int |-> 0, map |-> <<>>]

IntVal(n) == [kind |-> "int", str |-> <<>>, int |-> n, map |-> <<>>]

MapVal(m) == [kind |-> "map", str |-> <<>>, int |-> 0, map |-> m]

\* len(item["value"]) for a string value.
ValueLen(v) == Len(v.str)

Max(a, b) == IF a >= b THEN a ELSE b

\* The lookup expression of secret path path asking for length secret_len.
LookupExpr(path, secret_len) ==
       <<"{", "{", " ", "l", "o", "o", "k", "u", "p", "(", "'", "c", "o", "m", "m", "u",
         "n", "i", "t", "y", ".", "g", "e", "n", "e", "r", "a", "l", ".", "p", "a", "s",
         "s", "w", "o", "r", "d", "s", "t", "o", "r", "e", "'", ",", " ", "'">>
       \o path
       \o <<" ", "c", "r", "e", "a", "t", "e", "=", "t", "r", "u", "e", " ", "l", "e", "n",
            "g", "t", "h", "=">>
       \o IntToStr(secret_len)
       \o <<"'", ")", " ", "}", "}">>

\* get_secret_expr with the minimum length alone.
get_secret_expr_min_only(item) == LookupExpr(item.secret_path[1], min_secret_length)

\* get_secret_expr(item)
get_secret_expr(item) ==
    LookupExpr(item.secret_path[1], Max(ValueLen(item.value), min_secret_length))

\* The registry add_to_defaults reads and writes.
Registry == [defaults |-> defaults, services_by_env |-> services_by_env,
             env_files |-> env_files, calls |-> calls]

\* The history entry of one add_to_defaults call.
LogCall(reg, key, val, service_name, secret) ==
    [reg EXCEPT !.calls = Append(@, [key |-> key, value |-> val, service |-> service_name,
                                     is_secret |-> secret])]

\* add_to_defaults past its early return: the record is built and appended, the
\* env file and the service are noted. env_file is Absent or Some(path).
AppendRecord(reg, key, val, service_name, secret, env_file) ==
    LET base == [key |-> variable_from_env(key),
                 original_key |-> Some(key),
                 value |-> val,
                 is_secret |-> secret,
                 service |-> service_name,
                 secret_path |-> IF secret THEN Some(get_secret_path(service_name, key))
                                 ELSE Absent,
                 secret_expr |-> Absent,
                 env_file |-> env_file]
        data == IF secret THEN [base EXCEPT !.secret_expr = Some(get_secret_expr(base))]
                ELSE base
        seen == IF DictHas(reg.services_by_env, key)
                THEN DictGet(reg.services_by_env, key) ELSE <<>>
    IN [reg EXCEPT
          !.defaults = Append(@, data),
          !.services_by_env = DictSet(@, key, Append(seen, service_name)),
          !.env_files = IF Len(env_file) > 0 /\ Len(env_file[1]) > 0
                        THEN DictSet(@, env_file[1], file_name_id(env_file[1]))
                        ELSE @]

\* add_to_defaults with its early return left out.
add_to_defaults_unguarded(reg, key, val, service_name, secret, env_file) ==
    AppendRecord(LogCall(reg, key, val, service_name, secret),
                 key, val, service_name, secret, env_file)

\* add_to_defaults(key, val, service_name, is_secret, env_file) on registry reg.
add_to_defaults(reg, key, val, service_name, secret, env_file) ==
    IF DictHas(reg.services_by_env, key) /\ Len(DictGet(reg.services_by_env, key)) > 0
    THEN LogCall(reg, key, val, service_name, secret)
    ELSE AppendRecord(LogCall(reg, key, val, service_name, secret),
                      key, val, service_name, secret, env_file)

\* handle_secret_env_var / handle_env_var after the is_secret test of the callers.
RegisterEnvVar(reg, svc_name, key, value, env_file) ==
    add_to_defaults(reg, key, StrVal(value), svc_name, is_secret(svc_name, key, value, <<>>),
                    env_file)

\* str.split("=", 1) of an env line, as <<key, value>>.
SplitItem(item) ==
    LET i == IndexOf(item, "=")
    IN <<SubSeq(item, 1, i - 1), SubSeq(item, i + 1, Len(item))>>

\* env_to_dict: raises when an item holds no "=".
RECURSIVE EnvToDictFrom(_, _)
EnvToDictFrom(e, items) ==
    IF Len(items) = 0 THEN e
    ELSE EnvToDictFrom(DictSet(e, SplitItem(items[1])[1], SplitItem(items[1])[2]), Tail(items))

env_to_dict(items) ==
    IF \E i \in 1..Len(items) : IndexOf(items[i], "=") = 0
    THEN [raised |-> TRUE, env |-> <<>>]
    ELSE [raised |-> FALSE, env |-> EnvToDictFrom(<<>>, items)]

\* The lines iterate() of env_from_file yields.
IterateLines(lines, compose_env_file) ==
    IF ~compose_env_file /\ Len(lines) > 0 /\ ~StartsWith(lines[1], file_type_env)
    THEN <<>>
    ELSE SelectSeq(lines, LAMBDA line : ~(Len(line) = 0 \/ StartsWith(line, <<"#">>)))

\* The files on disk, by the path a descriptor names them with: a dict from path
\* to [kind, lines]. A path that is no key does not exist.
FileSystem ==
    << \* ./app.conf: a plain configuration file, no marker on its first line
       << <<".", "/", "a", "p", "p", ".", "c", "o", "n", "f">>,
          [kind |-> "file",
           lines |-> << <<"U", "S", "E", "R", "=", "x">> >>] >>,
       \* ./app.env: a marked env file
       << <<".", "/", "a", "p", "p", ".", "e", "n", "v">>,
          [kind |-> "file",
           lines |-> << file_type_env,
                        <<"#", " ", "n", "o", "t", "e">>,
                        <<"T", "O", "K", "E", "N", "=", "0", "1", "2", "3", "4", "5", "6", "7",
                          "8", "9", "a", "b", "c", "d", "e", "f", "g", "h", "i", "j">>,
                        <<>>,
                        <<"D", "B", "_", "P", "A", "S", "S", "=", "s", "3", "c", "r", "3">> >>] >>,
       \* ./bad.env: a marked file whose second entry is no KEY=VALUE line
       << <<".", "/", "b", "a", "d", ".", "e", "n", "v">>,
          [kind |-> "file",
           lines |-> << file_type_env,
                        <<"A", "P", "I", "_", "K", "E", "Y", "=", "s", "3", "c", "r", "3">>,
                        <<"g", "a", "r", "b", "a", "g", "e">> >>] >>,
       \* ./priv.env: a file the process may not read
       << <<".", "/", "p", "r", "i", "v", ".", "e", "n", "v">>,
          [kind |-> "unreadable", lines |-> <<>>] >>,
       \* ./data: a directory
       << <<".", "/", "d", "a", "t", "a">>,
          [kind |-> "dir", lines |-> <<>>] >>,
       \* ./web.env: an env file a service declares
       << <<".", "/", "w", "e", "b", ".", "e", "n", "v">>,
          [kind |-> "file",
           lines |-> << <<"A", "P", "I", "_", "K", "E", "Y", "=", "s", "3", "c", "r", "3">> >>] >>
    >>

\* Path.is_file()
IsFile(path) == DictHas(FileSystem, path) /\ DictGet(FileSystem, path).kind \in {"file", "unreadable"}

\* Path.read_text() succeeds.
Readable(path) == DictHas(FileSystem, path) /\ DictGet(FileSystem, path).kind = "file"

\* env_from_file(p, compose_env_file): [raised, env].
env_from_file(path, compose_env_file) ==
    IF ~Readable(path) THEN [raised |-> TRUE, env |-> <<>>]
    ELSE env_to_dict(IterateLines(DictGet(FileSystem, path).lines, compose_env_file))

\* --------------------------------------------------- the canonical descriptor

\* A short-form volume "source:target" as docker compose config reports it.
CanonVolume(spec) ==
    LET source == SubSeq(spec, 1, IndexOf(spec, ":") - 1)
    IN [type |-> IF Len(source) > 0 /\ source[1] \in {".", "/"} THEN "bind" ELSE "volume",
        source |-> source]

\* A short-form port "host:container" or "container" as docker compose config
\* reports it; published is the empty string when no host port is published.
CanonPort(spec) ==
    LET i == IndexOf(spec, ":")
    IN IF i = 0 THEN [published |-> <<>>, target |-> spec]
       ELSE [published |-> SubSeq(spec, 1, i - 1), target |-> SubSeq(spec, i + 1, Len(spec))]

\* The variables of the env files a service declares, the files that cannot be
\* read contributing none.
RECURSIVE EnvFilesEnv(_)
EnvFilesEnv(paths) ==
    IF Len(paths) = 0 THEN <<>>
    ELSE LET r == env_from_file(paths[1], TRUE)
         IN DictUpdate(IF r.raised THEN <<>> ELSE r.env, EnvFilesEnv(Tail(paths)))

CanonService(svc) ==
    [environment |-> DictUpdate(EnvFilesEnv(svc.env_file), svc.environment),
     volumes |-> [i \in 1..Len(svc.volumes) |-> CanonVolume(svc.volumes[i])],
     ports |-> [i \in 1..Len(svc.ports) |-> CanonPort(svc.ports[i])],
     image |-> svc.image]

\* model: ComposeSpecification.model_validate of the docker compose config output.
model ==
    [services |-> [i \in 1..Len(og.services) |->
                      <<og.services[i][1], CanonService(og.services[i][2])>>],
     volumes |-> og.volumes]

ServiceCount == Len(og.services)

ServiceName(i) == og.services[i][1]

\* ------------------------------------------------------------ service walker

\* names_to_env_files of handle_svc_environment: [raised, names].
RECURSIVE NamesToEnvFiles(_, _)
NamesToEnvFiles(names, env_f_list) ==
    IF Len(env_f_list) = 0 THEN [raised |-> FALSE, names |-> names]
    ELSE LET r == env_from_file(env_f_list[1], TRUE)
         IN IF r.raised THEN [raised |-> TRUE, names |-> names]
            ELSE NamesToEnvFiles(
                     DictUpdate(names, [k \in 1..Len(r.env) |-> <<r.env[k][1], env_f_list[1]>>]),
                     Tail(env_f_list))

\* The loops of handle_svc_environment and handle_svc_env_file over env.items().
RECURSIVE RegisterItems(_, _, _, _)
RegisterItems(reg, name, items, names_to_env_files) ==
    IF Len(items) = 0 THEN reg
    ELSE LET key == items[1][1]
             env_file == IF DictHas(names_to_env_files, key)
                         THEN Some(DictGet(names_to_env_files, key)) ELSE Absent
         IN RegisterItems(RegisterEnvVar(reg, name, key, items[1][2], env_file),
                          name, Tail(items), names_to_env_files)

\* handle_svc_environment(name, svc): [raised, reg].
handle_svc_environment(reg, name, svc) ==
    IF Len(svc.environment) = 0 THEN [raised |-> FALSE, reg |-> reg]
    ELSE LET n == NamesToEnvFiles(<<>>, DictGet(final.services, name).env_file)
         IN IF n.raised THEN [raised |-> TRUE, reg |-> reg]
            ELSE [raised |-> FALSE,
                  reg |-> RegisterItems(reg, name, svc.environment, n.names)]

\* handle_svc_env_file(name, path)
handle_svc_env_file(reg, name, path) ==
    IF ~IsFile(path) THEN reg
    ELSE LET r == env_from_file(path, FALSE)
         IN IF r.raised THEN reg
            ELSE RegisterItems(reg, name, r.env,
                               [k \in 1..Len(r.env) |-> <<r.env[k][1], path>>])

\* re.search(r"[\w._]+$", val): the matched text, empty when there is no match.
TrailingId(val) ==
    LET e == IF Len(val) > 0 /\ val[Len(val)] = "\n" THEN Len(val) - 1 ELSE Len(val)
        InClass(c) == IsWord(c) \/ c = "."
        starts == {i \in 1..e : \A j \in i..e : InClass(val[j])}
    IN IF starts = {} THEN <<>>
       ELSE SubSeq(val, CHOOSE i \in starts : \A k \in starts : i <= k, e)

\* The loop of handle_svc_volumes; acc is [reg, backup_paths, volume_defaults].
RECURSIVE VolumesFrom(_, _, _)
VolumesFrom(acc, name, vols) ==
    IF Len(vols) = 0 THEN acc
    ELSE LET vol == vols[1]
             val == vol.source
             m == TrailingId(val)
             vol_id == Replace(IF Len(m) > 0 THEN m ELSE <<"d", "a", "t", "a">>, <<".">>, <<"_">>)
             normalized_key == defaults_prefix \o vol_id
                                  \o <<"_", "m", "o", "u", "n", "t", "_", "d", "i", "r">>
             default_path == <<"/", "v", "a", "r", "/", "l", "i", "b", "/", "d", "o", "c", "k",
                               "e", "r", "/", "v", "o", "l", "u", "m", "e", "s">>
             next == IF vol.type = "bind"
                     THEN [reg |-> handle_svc_env_file(acc.reg, name, val),
                           backup_paths |-> Append(acc.backup_paths, val),
                           volume_defaults |-> DictSet(acc.volume_defaults, val, normalized_key)]
                     ELSE IF vol.type = "volume"
                     THEN [acc EXCEPT !.backup_paths =
                              Append(@, default_path \o <<"/">> \o DictGet(model.volumes, val).name)]
                     ELSE acc
         IN VolumesFrom(next, name, Tail(vols))

handle_svc_volumes(acc, name, data) == VolumesFrom(acc, name, data.volumes)

\* The loop of handle_svc_ports; acc is [reg, exposed] with exposed the list
\* exposed_ports_by_service[name].
RECURSIVE PortsFrom(_, _, _)
PortsFrom(acc, name, ports) ==
    IF Len(ports) = 0 THEN acc
    ELSE IF Len(ports[1].published) = 0 THEN PortsFrom(acc, name, Tail(ports))
    ELSE LET host_port == StrToInt(ports[1].published)
             key == variable_from_port(name, host_port, FALSE)
         IN PortsFrom([reg |-> add_to_defaults(acc.reg, key, IntVal(host_port), name, FALSE, Absent),
                       exposed |-> Append(acc.exposed, host_port)],
                      name, Tail(ports))

handle_svc_ports(acc, name, data) == PortsFrom(acc, name, data.ports)

\* The alternatives of db_search_patt, in the pattern's order.
supported == << <<"m", "a", "r", "i", "a", "d", "b">>,
                <<"p", "o", "s", "t", "g", "r", "e", "s">>,
                <<"r", "e", "d", "i", "s">> >>

\* db_search_patt.search(image): Absent, or Some of the first alternative that
\* matches at the leftmost position an alternative matches at.
DbSearch(image) ==
    LET At(i) == {k \in 1..Len(supported) :
                    i + Len(supported[k]) - 1 <= Len(image)
                    /\ SubSeq(image, i, i + Len(supported[k]) - 1) = supported[k]}
        hits == {i \in 1..Len(image) : At(i) # {}}
    IN IF hits = {} THEN Absent
       ELSE LET i == CHOOSE h \in hits : \A g \in hits : h <= g
            IN Some(supported[CHOOSE k \in At(i) : \A l \in At(i) : k <= l])

\* image.split(":")[-1]
LastSegment(image) == SubSeq(image, LastIndexOf(image, ":") + 1, Len(image))

\* handle_service_image(name, svc) on images_tags tags.
handle_service_image(tags, name, svc) ==
    DictSet(tags, svc.image,
            [service |-> name, tag |-> LastSegment(svc.image), kind |-> DbSearch(svc.image)])

\* The dict add_releases_to_defaults builds from images_tags.
RECURSIVE ReleasesFrom(_, _)
ReleasesFrom(d, tags) ==
    IF Len(tags) = 0 THEN d
    ELSE ReleasesFrom(DictSet(d, tags[1][2].service, tags[1][2].tag), Tail(tags))

\* add_releases_to_defaults() on the record list.
add_releases_to_defaults(records) ==
    Append(records,
           [key |-> variable_from_env(releases_key),
            original_key |-> Absent,
            value |-> MapVal(ReleasesFrom(<<>>, images_tags)),
            is_secret |-> FALSE,
            service |-> <<"N", "o", "n", "e">>,
            secret_path |-> Absent,
            secret_expr |-> Absent,
            env_file |-> Absent])

\* ------------------------------------------------------- descriptor rewriter

\* patch_image_tag(image, new_tag)
patch_image_tag(image, new_tag) == SubSeq(image, 1, LastIndexOf(image, ":")) \o new_tag

\* The environment loop of create_final_compose: every value becomes the
\* placeholder of the variable named after its key.
RewriteEnvironment(env) ==
    [k \in 1..Len(env) |-> <<env[k][1], Jinja(variable_from_env(env[k][1]))>>]

\* The volumes loop of create_final_compose for service name.
RewriteVolumes(name, volumes) ==
    [ix \in 1..Len(volumes) |->
        LET val == DictGet(model.services, name).volumes[ix].source
        IN IF DictHas(volume_defaults, val)
           THEN Replace(volumes[ix], val, Jinja(DictGet(volume_defaults, val)))
           ELSE volumes[ix]]

\* new_ports of create_final_compose: zip() stops at the shorter list.
RECURSIVE NewPorts(_, _, _)
NewPorts(name, ports, exposed) ==
    IF Len(ports) = 0 \/ Len(exposed) = 0 THEN <<>>
    ELSE <<patch_port(ports[1], Jinja(variable_from_port(name, exposed[1], TRUE)))>>
            \o NewPorts(name, Tail(ports), Tail(exposed))

\* The body of the services loop of create_final_compose.
RewriteService(name, data) ==
    LET exposed == IF DictHas(exposed_ports_by_service, name)
                   THEN DictGet(exposed_ports_by_service, name) ELSE <<>>
        new_ports == NewPorts(name, data.ports, exposed)
        new_tag == Jinja(variable_from_env(releases_key) \o <<"[", "'">> \o name \o <<"'", "]">>)
    IN [data EXCEPT
          !.environment = RewriteEnvironment(@),
          !.volumes = RewriteVolumes(name, @),
          !.ports = IF Len(new_ports) > 0 THEN new_ports ELSE @,
          !.image = patch_image_tag(@, new_tag)]

\* The network list of the proxy container with the length tested before the
\* external network is appended.
ProxyNetworks_tested_before_append(declared) ==
    IF Len(declared) = 1
    THEN declared \o <<ext_proxy_net, <<"d", "e", "f", "a", "u", "l", "t">>>>
    ELSE Append(declared, ext_proxy_net)

\* The network list handle_proxy_container leaves on the proxy container, from
\* the list it declared (empty when it declared none).
ProxyNetworks(declared) ==
    LET appended == Append(declared, ext_proxy_net)
    IN IF Len(appended) = 1
       THEN Append(appended, <<"d", "e", "f", "a", "u", "l", "t">>)
       ELSE appended

\* handle_proxy_container(compose_config)
handle_proxy_container(compose_config) ==
    IF Len(proxy_container) = 0 THEN compose_config
    ELSE LET name == proxy_container[1]
             svc == DictGet(compose_config.services, name)
             declared == IF svc.networks.present THEN svc.networks.names ELSE <<>>
             nets == compose_config.networks.nets
         IN [compose_config EXCEPT
               !.services = DictSet(@, name,
                                    [svc EXCEPT !.networks = [present |-> TRUE,
                                                              names |-> ProxyNetworks(declared)]]),
               !.networks = [present |-> TRUE,
                             nets |-> IF DictHas(nets, ext_proxy_net) THEN nets
                                      ELSE DictSet(nets, ext_proxy_net,
                                                   [name |-> ext_proxy_net, external |-> TRUE])]]

\* create_final_compose(final_compose)
create_final_compose(final_compose) ==
    handle_proxy_container(
        [final_compose EXCEPT
           !.services = [i \in 1..Len(@) |-> <<@[i][1], RewriteService(@[i][1], @[i][2])>>]])

\* ------------------------------------------------------------------ inputs

\* The largest number of services of a descriptor.
MaxServices == 2

ServiceNames == << <<"w", "e", "b">>, <<"D", "b">>, <<"c", "a", "c", "h", "e">>,
                   <<"a", "p", "i">> >>

Value5 == <<"s", "3", "c", "r", "3">>

Value20 == <<"0", "1", "2", "3", "4", "5", "6", "7", "8", "9",
             "a", "b", "c", "d", "e", "f", "g", "h", "i", "j">>

KeyTOKEN == <<"T", "O", "K", "E", "N">>

KeyToken == <<"t", "o", "k", "e", "n">>

KeyUSER == <<"U", "S", "E", "R">>

KeyReleases == <<"r", "e", "l", "e", "a", "s", "e", "s">>

ImageNginx == <<"n", "g", "i", "n", "x", ":", "1", ".", "2", "5">>

ImageRedis == <<"r", "e", "d", "i", "s", ":", "7">>

\* A service with an image and nothing else. A service holds the sections the
\* walker and the rewriter read; its environment is in mapping form, its
\* volumes and ports in the short string form, and it declares no user.
BaseService ==
    [environment |-> <<>>, env_file |-> <<>>, volumes |-> <<>>, ports |-> <<>>,
     image |-> ImageNginx, networks |-> [present |-> FALSE, names |-> <<>>]]

\* The environment sections: a secret key in lower case with a long value, the
\* same key in upper case with that value beside a plain key, and a plain key
\* named releases.
Environments ==
    { << <<KeyToken, Value20>> >>,
      << <<KeyTOKEN, Value20>>, <<KeyUSER, <<"x">>>> >>,
      << <<KeyReleases, <<"x">>>> >> }

\* The env_file sections, beside a one-key environment: a file on disk, a file
\* that is not there.
EnvFileLists ==
    { << <<".", "/", "w", "e", "b", ".", "e", "n", "v">> >>,
      << <<".", "/", "g", "o", "n", "e", ".", "e", "n", "v">> >> }

\* The volume sections: bind mounts of a directory and of a file without the
\* marker; of a marked env file; of an unreadable and of an unparsable file
\* followed by a marked env file; a named volume.
VolumeLists ==
    { << <<".", "/", "d", "a", "t", "a", ":", "/", "d">>,
         <<".", "/", "a", "p", "p", ".", "c", "o", "n", "f", ":", "/", "c">> >>,
      << <<".", "/", "a", "p", "p", ".", "e", "n", "v", ":", "/", "e">> >>,
      << <<".", "/", "p", "r", "i", "v", ".", "e", "n", "v", ":", "/", "p">>,
         <<".", "/", "b", "a", "d", ".", "e", "n", "v", ":", "/", "b">>,
         <<".", "/", "a", "p", "p", ".", "e", "n", "v", ":", "/", "e">> >>,
      << <<"d", "b", "d", "a", "t", "a", ":", "/", "v">> >> }

\* The port sections: two published ports, and a container-only port before a
\* published one.
PortLists ==
    { << <<"8", "0", "8", "0", ":", "8", "0">>, <<"9", "0", "9", "0", ":", "9", "0">> >>,
      << <<"8", "0">>, <<"8", "0", "8", "0", ":", "8", "0">> >> }

\* The service of the scenario: a secret, a bind-mounted env file, a published
\* port and a declared network.
ScenarioService ==
    [environment |-> << <<KeyTOKEN, Value5>> >>,
     env_file |-> <<>>,
     volumes |-> << <<".", "/", "a", "p", "p", ".", "e", "n", "v", ":", "/", "e">> >>,
     ports |-> << <<"8", "0", "8", "0", ":", "8", "0">> >>,
     image |-> ImageNginx,
     networks |-> [present |-> TRUE, names |-> << <<"b", "a", "c", "k", "e", "n", "d">> >>]]

\* The services a descriptor is made of: each varies one section of the base
\* service (the sections are handled by separate handlers that share only the
\* registry), and the scenario's service carries every section.
ServiceShapes ==
    {BaseService, ScenarioService}
    \cup {[BaseService EXCEPT !.environment = e] : e \in Environments}
    \cup {[BaseService EXCEPT !.environment = << <<KeyUSER, <<"x">>>> >>, !.env_file = f] :
             f \in EnvFileLists}
    \cup {[BaseService EXCEPT !.volumes = v] : v \in VolumeLists}
    \cup {[BaseService EXCEPT !.ports = p] : p \in PortLists}
    \cup {[BaseService EXCEPT !.image = ImageRedis]}
    \cup {[BaseService EXCEPT !.networks = [present |-> TRUE, names |-> <<>>]]}

\* The descriptor made of the services shapes, named in order.
Descriptor(shapes) ==
    [services |-> [i \in 1..Len(shapes) |-> <<ServiceNames[i], shapes[i]>>],
     volumes |-> << << <<"d", "b", "d", "a", "t", "a">>,
                       [name |-> <<"p", "r", "o", "j", "_", "d", "b", "d", "a", "t", "a">>] >> >>,
     networks |-> [present |-> FALSE, nets |-> <<>>]]

\* The descriptors: one to MaxServices services.
Descriptors ==
    {Descriptor(shapes) : shapes \in UNION {[1..n -> ServiceShapes] : n \in 1..MaxServices}}

\* The values of --defaults-prefix that validate_defaults_prefix accepts.
DefaultsPrefixOptions == {<<"p">>, <<"p", "_">>}

\* The values of --min-secret-length.
MinSecretLengths == {default_min_secret_len, 3}

\* ---------------------------------------------------------------- the run

At(label, i) == [at |-> label, svc |-> i]

NoArg == [text |-> <<>>, service |-> <<>>, value |-> <<>>, extra |-> <<>>]

NoRet == [bool |-> FALSE, text |-> <<>>]

\* main up to the call of handle_services: the options are read, the descriptor
\* is loaded twice, and the accumulators are empty.
Init ==
    /\ \E opt \in DefaultsPrefixOptions :
          defaults_prefix = IF EndsWith(opt, <<"_">>) THEN opt ELSE opt \o <<"_">>
    /\ min_secret_length \in MinSecretLengths
    /\ og \in Descriptors
    /\ proxy_container \in {Absent} \cup {Some(og.services[i][1]) : i \in 1..Len(og.services)}
    /\ final = og
    /\ defaults = <<>>
    /\ services_by_env = <<>>
    /\ env_files = <<>>
    /\ calls = <<>>
    /\ backup_paths = <<>>
    /\ exposed_ports_by_service = <<>>
    /\ volume_defaults = <<>>
    /\ images_tags = <<>>
    /\ pc = At("handle_svc_environment", 1)
    /\ fn = "none" /\ arg = NoArg /\ ret = NoRet

SetRegistry(reg) ==
    /\ defaults' = reg.defaults
    /\ services_by_env' = reg.services_by_env
    /\ env_files' = reg.env_files
    /\ calls' = reg.calls

\* handle_services, first call of the loop body: an exception of
\* handle_svc_environment is caught nowhere and ends the run.
HandleSvcEnvironment ==
    /\ pc.at = "handle_svc_environment"
    /\ LET name == ServiceName(pc.svc)
           r == handle_svc_environment(Registry, name, DictGet(model.services, name))
       IN /\ SetRegistry(r.reg)
          /\ pc' = IF r.raised THEN At("raised", pc.svc) ELSE At("handle_svc_volumes", pc.svc)
    /\ UNCHANGED <<configVars, final, walkVars, pureVars>>

HandleSvcVolumes ==
    /\ pc.at = "handle_svc_volumes"
    /\ LET name == ServiceName(pc.svc)
           r == handle_svc_volumes([reg |-> Registry, backup_paths |-> backup_paths,
                                    volume_defaults |-> volume_defaults],
                                   name, DictGet(model.services, name))
       IN /\ SetRegistry(r.reg)
          /\ backup_paths' = r.backup_paths
          /\ volume_defaults' = r.volume_defaults
    /\ pc' = At("handle_svc_ports", pc.svc)
    /\ UNCHANGED <<configVars, final, exposed_ports_by_service, images_tags, pureVars>>

HandleSvcPorts ==
    /\ pc.at = "handle_svc_ports"
    /\ LET name == ServiceName(pc.svc)
           before == IF DictHas(exposed_ports_by_service, name)
                     THEN DictGet(exposed_ports_by_service, name) ELSE <<>>
           r == handle_svc_ports([reg |-> Registry, exposed |-> before],
                                 name, DictGet(model.services, name))
       IN /\ SetRegistry(r.reg)
          /\ exposed_ports_by_service' =
                IF Len(r.exposed) > Len(before)
                THEN DictSet(exposed_ports_by_service, name, r.exposed)
                ELSE exposed_ports_by_service
    /\ pc' = At("handle_service_image", pc.svc)
    /\ UNCHANGED <<configVars, final, backup_paths, volume_defaults, images_tags, pureVars>>

HandleServiceImage ==
    /\ pc.at = "handle_service_image"
    /\ LET name == ServiceName(pc.svc)
       IN images_tags' = handle_service_image(images_tags, name, DictGet(model.services, name))
    /\ pc' = IF pc.svc < ServiceCount THEN At("handle_svc_environment", pc.svc + 1)
             ELSE At("add_releases_to_defaults", 0)
    /\ UNCHANGED <<configVars, final, registryVars, backup_paths, exposed_ports_by_service,
                   volume_defaults, pureVars>>

AddReleasesToDefaults ==
    /\ pc.at = "add_releases_to_defaults"
    /\ defaults' = add_releases_to_defaults(defaults)
    /\ pc' = At("create_final_compose", 0)
    /\ UNCHANGED <<configVars, final, services_by_env, env_files, calls, walkVars, pureVars>>

CreateFinalCompose ==
    /\ pc.at = "create_final_compose"
    /\ final' = create_final_compose(final)
    /\ pc' = At("done", 0)
    /\ UNCHANGED <<configVars, registryVars, walkVars, pureVars>>

Next ==
    \/ HandleSvcEnvironment
    \/ HandleSvcVolumes
    \/ HandleSvcPorts
    \/ HandleServiceImage
    \/ AddReleasesToDefaults
    \/ CreateFinalCompose

Spec == Init /\ [][Next]_vars

\* ------------------------------------------- the module-level functions alone

\* The longest text the key normalizer is applied to on its own.
MaxStrLen == 3

NormalizerAlphabet == {"a", "B", "-", " ", "]", "_"}

\* Keys for the classifier: a stem, then a word in lower or upper case, then an
\* ending.
ClassifierKeys ==
    {stem \o word \o ending :
        stem \in {<<>>, <<"D", "B", "_">>},
        word \in SecretSuffixes \cup {Upper(w) : w \in SecretSuffixes}
                    \cup {<<"u", "s", "e", "r">>, <<"p", "a", "s", "s">>},
        ending \in {<<>>, <<"s">>, <<"\n">>}}

PureArgs ==
    [text : StringsUpTo(NormalizerAlphabet, MaxStrLen) \cup ClassifierKeys,
     service : {ServiceNames[1], ServiceNames[2]},
     value : {<<"x">>, Value5},
     extra : {<<>>, << <<"K", "E", "Y">> >>}]

\* The accumulators of a run that has not started.
Idle ==
    /\ defaults_prefix = <<"p", "_">>
    /\ min_secret_length = default_min_secret_len
    /\ proxy_container = Absent
    /\ og = Descriptor(<<BaseService>>)
    /\ final = og
    /\ defaults = <<>>
    /\ services_by_env = <<>>
    /\ env_files = <<>>
    /\ calls = <<>>
    /\ backup_paths = <<>>
    /\ exposed_ports_by_service = <<>>
    /\ volume_defaults = <<>>
    /\ images_tags = <<>>
    /\ pc = At("idle", 0)

InitPure == Idle /\ fn = "none" /\ arg \in PureArgs /\ ret = NoRet

ApplyIsSecret ==
    /\ fn = "none"
    /\ fn' = "is_secret"
    /\ ret' = [bool |-> is_secret(arg.service, arg.text, arg.value, arg.extra), text |-> <<>>]
    /\ UNCHANGED <<configVars, final, registryVars, walkVars, pc, arg>>

ApplyNormalizeKeyAndName ==
    /\ fn = "none"
    /\ fn' = "normalize_key_and_name"
    /\ ret' = [bool |-> FALSE, text |-> normalize_key_and_name(arg.text)]
    /\ UNCHANGED <<configVars, final, registryVars, walkVars, pc, arg>>

NextPure == ApplyIsSecret \/ ApplyNormalizeKeyAndName

SpecPure == InitPure /\ [][NextPure]_vars

\* ------------------------------------------------------------------ claims

Done == pc.at = "done"

\* The records add_to_defaults appended: the ones that carry an original_key.
Registered == SelectSeq(defaults, LAMBDA r : Len(r.original_key) > 0)

\* The calls that were the first with their key, in call order.
FirstCalls ==
    LET First(c) == \A d \in 1..(c - 1) : calls[d].key # calls[c].key
        F[c \in 0..Len(calls)] ==
            IF c = 0 THEN <<>>
            ELSE IF First(c) THEN Append(F[c - 1], calls[c]) ELSE F[c - 1]
    IN F[Len(calls)]

\* The placeholder expressions of a text: what stands between "{{ " and the
\* next " }}".
PlaceholdersIn(text) ==
    LET Opens(i) == i + 2 <= Len(text) /\ SubSeq(text, i, i + 2) = <<"{", "{", " ">>
        Closes(j) == j + 2 <= Len(text) /\ SubSeq(text, j, j + 2) = <<" ", "}", "}">>
    IN {SubSeq(text, i + 3, (CHOOSE j \in (i + 3)..Len(text) :
                                Closes(j) /\ \A k \in (i + 3)..(j - 1) : ~Closes(k)) - 1) :
           i \in {o \in 1..Len(text) : Opens(o) /\ \E j \in (o + 3)..Len(text) : Closes(j)}}

RecordsWithKey(k) == {i \in 1..Len(defaults) : defaults[i].key = k}

\* C1: after the full run every placeholder of the rewritten descriptor names
\* a variable of the final record list: an environment or port placeholder is
\* the key of exactly one record, a volume placeholder is the key of a record,
\* and an image placeholder indexes the releases record by a service name its
\* value holds.
C1_PlaceholdersResolve ==
    Done =>
        \A s \in 1..Len(final.services) :
            LET data == final.services[s][2]
            IN /\ \A k \in 1..Len(data.environment) :
                     \A e \in PlaceholdersIn(data.environment[k][2]) :
                         Cardinality(RecordsWithKey(e)) = 1
               /\ \A k \in 1..Len(data.ports) :
                     \A e \in PlaceholdersIn(data.ports[k]) : Cardinality(RecordsWithKey(e)) = 1
               /\ \A k \in 1..Len(data.volumes) :
                     \A e \in PlaceholdersIn(data.volumes[k]) : RecordsWithKey(e) # {}
               /\ \A e \in PlaceholdersIn(data.image) :
                     \E i \in 1..Len(defaults) :
                         /\ defaults[i].value.kind = "map"
                         /\ \E n \in DictKeys(defaults[i].value.map) :
                               e = defaults[i].key \o <<"[", "'">> \o n \o <<"'", "]">>

\* C2: the record list holds exactly one record per distinct source key that
\* add_to_defaults was called with, in the order of the first calls, each with
\* the value, service and is_secret flag of the first call for its key; so a
\* later call with a key already seen changes nothing.
C2_FirstWriteWins ==
    /\ Len(Registered) = Len(FirstCalls)
    /\ \A i \in 1..Len(Registered) :
          /\ Registered[i].original_key = Some(FirstCalls[i].key)
          /\ Registered[i].value = FirstCalls[i].value
          /\ Registered[i].service = FirstCalls[i].service
          /\ Registered[i].is_secret = FirstCalls[i].is_secret

\* A key was registered by one service and offered again, with another value,
\* by a later service.
C2_Witness ==
    /\ Done
    /\ \E c, d \in 1..Len(calls) :
          /\ c < d
          /\ calls[c].key = calls[d].key
          /\ calls[c].value # calls[d].value
          /\ calls[c].service # calls[d].service

\* C3: no two records of the record list have the same key.
C3_KeysUnique ==
    \A i, j \in 1..Len(defaults) : i # j => defaults[i].key # defaults[j].key

\* What stops a bind-mounted file from being an env source: it is no file, it
\* cannot be read or parsed, or its first line is not the env marker.
FailingSource(path) ==
    \/ ~IsFile(path)
    \/ ~Readable(path)
    \/ LET lines == DictGet(FileSystem, path).lines
       IN \/ Len(lines) = 0
          \/ ~StartsWith(lines[1], file_type_env)
          \/ \E i \in 2..Len(lines) :
                Len(lines[i]) > 0 /\ lines[i][1] # "#" /\ IndexOf(lines[i], "=") = 0

\* handle_svc_volumes has run for service s.
VolumesWalked(s) ==
    \/ pc.at \in {"add_releases_to_defaults", "create_final_compose", "done"}
    \/ pc.at \in {"handle_svc_environment", "handle_svc_volumes", "handle_svc_ports",
                  "handle_service_image"}
       /\ (pc.svc > s \/ (pc.svc = s /\ pc.at \in {"handle_svc_ports", "handle_service_image"}))

\* The bind-mount sources of service s in the authored descriptor.
BindSources(s) ==
    {CanonVolume(og.services[s][2].volumes[v]).source :
        v \in {w \in 1..Len(og.services[s][2].volumes) :
                  CanonVolume(og.services[s][2].volumes[w]).type = "bind"}}

\* C4: a failing source never ends the run: no exception leaves the walk, and
\* a failing bind-mounted file adds no record while its path is in the
\* backup-path list.
C4_ExtractionNeverFatal ==
    /\ pc.at # "raised"
    /\ \A s \in 1..ServiceCount :
          VolumesWalked(s) =>
              \A path \in {q \in BindSources(s) : FailingSource(q)} :
                  /\ \E b \in 1..Len(backup_paths) : backup_paths[b] = path
                  /\ \A i \in 1..Len(defaults) : defaults[i].env_file # Some(path)

\* The length a lookup expression asks for: the digits after its last "=".
SecretExprLength(expr) == StrToInt(SubSeq(expr, LastIndexOf(expr, "=") + 1, Len(expr) - 5))

\* The first add_to_defaults call with key k.
FirstCallWith(k) ==
    calls[CHOOSE c \in 1..Len(calls) :
             calls[c].key = k /\ \A d \in 1..(c - 1) : calls[d].key # k]

\* C6: the length a secret record's secret_expr asks for is the larger of
\* min_secret_length and the length of the value the key was first registered
\* with.
C6_SecretLengthFloor ==
    \A i \in 1..Len(Registered) :
        Registered[i].is_secret =>
            LET first == FirstCallWith(Registered[i].original_key[1]).value.str
                asked == SecretExprLength(Registered[i].secret_expr[1])
            IN /\ asked = (IF Len(first) >= min_secret_length THEN Len(first)
                           ELSE min_secret_length)
               /\ asked >= min_secret_length
               /\ asked >= Len(first)

\* With the default minimum of 12, a secret of length 20 asks for 20 and a
\* secret of length 5 asks for 12.
C6_Witness ==
    /\ Done
    /\ min_secret_length = 12
    /\ \E i, j \in 1..Len(Registered) :
          /\ Registered[i].is_secret /\ Len(Registered[i].value.str) = 20
          /\ SecretExprLength(Registered[i].secret_expr[1]) = 20
          /\ Registered[j].is_secret /\ Len(Registered[j].value.str) = 5
          /\ SecretExprLength(Registered[j].secret_expr[1]) = 12

\* A literal port entry publishes a host port: it reads <digits>:<rest>.
PublishesHostPort(entry) ==
    IndexOf(entry, ":") > 1 /\ LeadingDigits(entry) = IndexOf(entry, ":") - 1

\* A literal port entry with its host port replaced by the placeholder of
\* host_port_<service>_<host port>; an entry that publishes none is left as is.
ExpectedPort(name, entry) ==
    IF PublishesHostPort(entry)
    THEN <<"{", "{", " ">> \o defaults_prefix
            \o <<"h", "o", "s", "t", "_", "p", "o", "r", "t", "_">> \o name \o <<"_">>
            \o SubSeq(entry, 1, IndexOf(entry, ":") - 1) \o <<" ", "}", "}">>
            \o SubSeq(entry, IndexOf(entry, ":"), Len(entry))
    ELSE entry

PortsRewrittenInPlace(s) ==
    LET name == og.services[s][1]
        before == og.services[s][2].ports
        after == final.services[s][2].ports
    IN /\ Len(after) = Len(before)
       /\ \A i \in 1..Len(before) : after[i] = ExpectedPort(name, before[i])

\* C8 as stated: for every service the rewritten port list is as long as the
\* literal one and entry i is literal entry i with its own host port replaced
\* by the placeholder, the container part unchanged.
C8_PortsRewrittenInPlace ==
    Done => \A s \in 1..ServiceCount : PortsRewrittenInPlace(s)

\* C8 amended: the same for every service whose literal port entries all
\* publish a host port.
C8_PublishedPortsRewrittenInPlace ==
    Done => \A s \in 1..ServiceCount :
                (\A i \in 1..Len(og.services[s][2].ports) :
                    PublishesHostPort(og.services[s][2].ports[i]))
                => PortsRewrittenInPlace(s)

\* A service with two published ports was rewritten.
C8_Witness ==
    /\ Done
    /\ \E s \in 1..ServiceCount :
          /\ Len(og.services[s][2].ports) = 2
          /\ \A i \in 1..2 : PublishesHostPort(og.services[s][2].ports[i])
          /\ \A i \in 1..2 : final.services[s][2].ports[i] # og.services[s][2].ports[i]

\* C9: the releases record maps every service of the descriptor, and nothing
\* else, to the tag segment of its image.
C9_ReleasesCoverServices ==
    pc.at \in {"create_final_compose", "done"} =>
        LET rel == defaults[Len(defaults)].value.map
        IN /\ Len(rel) = ServiceCount
           /\ \A s \in 1..ServiceCount :
                 /\ DictHas(rel, ServiceName(s))
                 /\ DictGet(rel, ServiceName(s)) = LastSegment(og.services[s][2].image)

\* The network list service s declared, empty when it declared none.
DeclaredNetworks(s) ==
    IF og.services[s][2].networks.present THEN og.services[s][2].networks.names ELSE <<>>

\* C10: with a proxy container configured, its network list is the declared
\* list, then the external proxy network, then default exactly when it declared
\* no network; every other service keeps its networks; with none configured
\* the networks of the descriptor are untouched.
C10_ProxyNetworkAppended ==
    Done =>
        IF Len(proxy_container) > 0
        THEN \A s \in 1..ServiceCount :
                IF og.services[s][1] = proxy_container[1]
                THEN final.services[s][2].networks.names =
                        DeclaredNetworks(s) \o <<ext_proxy_net>>
                           \o (IF Len(DeclaredNetworks(s)) = 0
                               THEN << <<"d", "e", "f", "a", "u", "l", "t">> >> ELSE <<>>)
                ELSE final.services[s][2].networks = og.services[s][2].networks
        ELSE /\ \A s \in 1..ServiceCount :
                   final.services[s][2].networks = og.services[s][2].networks
             /\ final.networks = og.networks

\* The proxy container declared a network and another service declared none:
\* the first got the external network without default, the second kept none.
C10_Witness ==
    /\ Done
    /\ Len(proxy_container) > 0
    /\ \E s, t \in 1..ServiceCount :
          /\ og.services[s][1] = proxy_container[1]
          /\ Len(DeclaredNetworks(s)) = 1
          /\ Len(final.services[s][2].networks.names) = 2
          /\ og.services[t][1] # proxy_container[1]
          /\ ~final.services[t][2].networks.present

\* A key ends, whatever the case, in one of the secret suffixes.
HasSecretSuffix(key) == \E w \in SecretSuffixes : EndsWith(Lower(key), w)

\* C5: is_secret is true of every key with a secret suffix and, when no extra
\* pattern is given, false of every other key, whatever the service and value.
C5_SecretIffSuffix ==
    fn = "is_secret" =>
        /\ HasSecretSuffix(arg.text) => ret.bool
        /\ (~HasSecretSuffix(arg.text) /\ Len(arg.extra) = 0) => ~ret.bool

\* A text with every maximal run of whitespace and hyphens replaced by one
\* underscore.
RECURSIVE CollapseRuns(_)
CollapseRuns(text) ==
    LET Sep(c) == c \in Whitespace \/ c = "-"
    IN IF Len(text) = 0 THEN <<>>
       ELSE IF Sep(text[1])
            THEN IF Len(text) >= 2 /\ Sep(text[2]) THEN CollapseRuns(Tail(text))
                 ELSE <<"_">> \o CollapseRuns(Tail(text))
            ELSE <<text[1]>> \o CollapseRuns(Tail(text))

\* C7: normalize_key_and_name returns the lower-cased input with every run of
\* whitespace and hyphens collapsed to one underscore, so its result holds no
\* whitespace and no hyphen.
C7_NormalizeCollapsesRuns ==
    fn = "normalize_key_and_name" =>
        /\ ret.text = CollapseRuns(Lower(arg.text))
        /\ \A i \in 1..Len(ret.text) : ret.text[i] \notin Whitespace /\ ret.text[i] # "-"

====
